---- MODULE Spec2Model ----
(***************************************************************************)
(* Cartographers: the shape-placement engine (src/src/map.rs), the shape   *)
(* catalog (src/src/cards.rs), the asset pipeline                          *)
(* (src/src/asset_manager.rs, src/src/resource_tracking.rs) and the card   *)
(* session of src/src/main.rs, as state machines.                          *)
(*                                                                         *)
(* Three specifications share the module:                                  *)
(*   Spec           the startup dependency pipeline                         *)
(*   SpecPlacement  the placement candidate on the grid                     *)
(*   SpecSession    drawing cards and creating the choice images            *)
(***************************************************************************)
EXTENDS Integers, Sequences, FiniteSets, TLC

\* ------------------------------------------------------------------------
\* Generic helpers
\* ------------------------------------------------------------------------

Range(s) == {s[i] : i \in DOMAIN s}

SetMax(S) == CHOOSE m \in S : \A x \in S : x <= m

\* Option: None is the empty sequence, Some(x) the one-element sequence
Absent == <<>>

Some(x) == <<x>>

Unwrap(option) == option[1]

\* ------------------------------------------------------------------------
\* Terrain and the shape catalog (terrain.rs, cards.rs)
\* ------------------------------------------------------------------------

\* enum Terrain, in declaration order (Terrain::iter())
Terrain == <<"None", "Forest", "Village", "Farm", "Water", "Monster", "Mountain">>

\* the Permutation of every drawable card: terrains, and (tiles, with_coin)
Permutation(card) ==
  CASE card = "GoblinAttack01" ->
         [terrains |-> <<"Monster">>,
          tiles |-> << <<(<< <<2,0>>, <<1,1>>, <<0,2>> >>), FALSE>> >>]
    [] card = "BugbearAssault02" ->
         [terrains |-> <<"Monster">>,
          tiles |-> << <<(<< <<0,0>>, <<1,0>>, <<0,2>>, <<1,2>> >>), FALSE>> >>]
    [] card = "KoboldOnslaught03" ->
         [terrains |-> <<"Monster">>,
          tiles |-> << <<(<< <<0,0>>, <<1,0>>, <<2,0>>, <<1,1>> >>), FALSE>> >>]
    [] card = "GnollRaid04" ->
         [terrains |-> <<"Monster">>,
          tiles |-> << <<(<< <<0,0>>, <<1,0>>, <<2,0>>, <<0,1>>, <<2,1>> >>), FALSE>> >>]
    [] card \in {"TempleRuins05", "OutpostRuins06"} ->
         [terrains |-> <<>>, tiles |-> <<>>]
    [] card = "GreatRiver07" ->
         [terrains |-> <<"Water">>,
          tiles |-> << <<(<< <<0,0>>, <<1,0>>, <<2,0>> >>), TRUE>>,
                       <<(<< <<0,0>>, <<0,1>>, <<1,1>>, <<1,2>>, <<2,2>> >>), FALSE>> >>]
    [] card = "Farmland08" ->
         [terrains |-> <<"Farm">>,
          tiles |-> << <<(<< <<0,0>>, <<1,0>> >>), TRUE>>,
                       <<(<< <<0,1>>, <<1,0>>, <<1,1>>, <<1,2>>, <<2,1>> >>), FALSE>> >>]
    [] card = "Hamlet09" ->
         [terrains |-> <<"Village">>,
          tiles |-> << <<(<< <<0,0>>, <<0,1>>, <<1,0>> >>), TRUE>>,
                       <<(<< <<0,0>>, <<0,1>>, <<1,0>>, <<1,1>>, <<1,2>> >>), FALSE>> >>]
    [] card = "ForgottenForest10" ->
         [terrains |-> <<"Forest">>,
          tiles |-> << <<(<< <<0,1>>, <<1,0>> >>), TRUE>>,
                       <<(<< <<0,1>>, <<1,0>>, <<1,1>>, <<2,0>> >>), FALSE>> >>]
    [] card = "HinterlandStream11" ->
         [terrains |-> <<"Farm", "Water">>,
          tiles |-> << <<(<< <<0,0>>, <<1,0>>, <<2,0>>, <<2,1>>, <<2,2>> >>), FALSE>> >>]
    [] card = "Homestead12" ->
         [terrains |-> <<"Village", "Farm">>,
          tiles |-> << <<(<< <<0,0>>, <<1,0>>, <<2,0>>, <<1,1>> >>), FALSE>> >>]
    [] card = "Orchard13" ->
         [terrains |-> <<"Forest", "Farm">>,
          tiles |-> << <<(<< <<1,0>>, <<1,1>>, <<1,2>>, <<0,2>> >>), FALSE>> >>]
    [] card = "TreetopVillage14" ->
         [terrains |-> <<"Forest", "Village">>,
          tiles |-> << <<(<< <<0,0>>, <<0,1>>, <<0,2>>, <<1,2>>, <<1,3>> >>), FALSE>> >>]
    [] card = "Marshlands15" ->
         [terrains |-> <<"Forest", "Water">>,
          tiles |-> << <<(<< <<0,0>>, <<1,0>>, <<2,0>>, <<1,1>>, <<1,2>> >>), FALSE>> >>]
    [] card = "FishingVillage16" ->
         [terrains |-> <<"Village", "Water">>,
          tiles |-> << <<(<< <<0,0>>, <<0,1>>, <<0,2>>, <<0,3>> >>), FALSE>> >>]
    [] card = "RiftLands17" ->
         [terrains |-> <<"Forest", "Village", "Farm", "Water", "Monster">>,
          tiles |-> << <<(<< <<0,0>> >>), FALSE>> >>]

\* enum Ambush, enum Exploration, in declaration order
Ambush == <<"GoblinAttack01", "BugbearAssault02", "KoboldOnslaught03", "GnollRaid04">>

Exploration ==
  <<"TempleRuins05", "OutpostRuins06", "GreatRiver07", "Farmland08", "Hamlet09",
    "ForgottenForest10", "HinterlandStream11", "Homestead12", "Orchard13",
    "TreetopVillage14", "Marshlands15", "FishingVillage16", "RiftLands17">>

\* Ambush::iter().chain(Exploration::iter())
DrawableCard == Ambush \o Exploration

\* struct Choice; the image handle is named by the choice's position (card, k)
Choice(terrain, tiles, with_coin) ==
  [terrain |-> terrain, tiles |-> tiles, with_coin |-> with_coin]

\* variant: every choice of a shape is given the first terrain of the card
GenerateChoicesFirstTerrain(card) ==
  LET p == Permutation(card)
      nt == Len(p.terrains)
  IN  [k \in 1..(Len(p.tiles) * nt) |->
         Choice(p.terrains[1],
                p.tiles[((k - 1) \div nt) + 1][1],
                p.tiles[((k - 1) \div nt) + 1][2])]

\* DrawableCard::generate_choices: for (tiles, with_coin) { for terrain { push } }
GenerateChoices(card) ==
  LET p == Permutation(card)
      nt == Len(p.terrains)
  IN  [k \in 1..(Len(p.tiles) * nt) |->
         Choice(p.terrains[((k - 1) % nt) + 1],
                p.tiles[((k - 1) \div nt) + 1][1],
                p.tiles[((k - 1) \div nt) + 1][2])]

\* every choice the catalog can offer
CatalogChoices == UNION {Range(GenerateChoices(c)) : c \in Range(DrawableCard)}

\* Choice::size, in tiles: (columns, rows) = (max column + 1, max row + 1)
ChoiceColumns(tiles) == SetMax({tiles[i][2] + 1 : i \in DOMAIN tiles})

ChoiceRows(tiles) == SetMax({tiles[i][1] + 1 : i \in DOMAIN tiles})

\* the tiles of the 1x1 shape (RiftLands17)
SingleTile == << <<0, 0>> >>

\* ------------------------------------------------------------------------
\* State
\* ------------------------------------------------------------------------

VARIABLES
  \* --- placement (map.rs) ---
  cells,                \* Cell.terrain by Cell.index, for the cells that are not None
  cell_size_skew,       \* Grid.cell_size: rounding class of (n * size) / size, per axis
  choice,               \* SelectedChoice.choice, Absent while nothing is dragged
  rotation,             \* SelectedChoice.rotation, in degrees
  latest_hovered_cell,  \* SelectedChoice.latest_hovered_cell
  occupied_tiles,       \* SelectedChoice.occupied_tiles
  sprite_white,         \* the candidate's Sprite.color is Color::WHITE (valid)
  snap_events,          \* the SnapSelectedChoiceToCell events read in the last frame
  \* --- pipeline (asset_manager.rs, resource_tracking.rs) ---
  tracking,             \* which tracker the run follows: asset_manager or resource_tracking
  load_state,           \* AssetServer: the load state of every handle
  trackers,             \* the T of every ResourceTracker<T> resource present
  choices_inserted,     \* the Choices resource is present
  terrain_images_loaded,\* a TerrainImagesLoaded event is waiting to be read
  generated,            \* how often generate_choices has run
  tracked,              \* resource_tracking: the handles of the inserted resource, by type
  callbacks,            \* resource_tracking: the keys of Callbacks
  callback_ids,         \* resource_tracking: the (TypeId, SystemId) entries of Callbacks
  systems,              \* the track_resource::<T> systems registered with the World
  fired,                \* reactions run, by stage, since the stage was last registered
  tick,                 \* parity of the number of PreUpdate runs
  \* --- session (main.rs) ---
  deck,                 \* Deck.0
  discard_pile,         \* DiscardPile.0
  drawn_card,           \* DrawnCard.0
  drawn_changed,        \* DrawnCard changed since create_choices last ran
  category_loaded,      \* the categories whose image of Categories is loaded
  generated_sprites,    \* the GeneratedSprite entities, by the image key they show
  image_generations,    \* calls of create_choice_image, by image key
  \* --- committing a candidate (the Cell terrains of map.rs) ---
  cell_writes,          \* how often a commit has written Cell.terrain, by the cells written
  confirms,             \* parity of the number of confirm requests
  \* --- the rotation of one tile (map.rs) ---
  probe_origin,         \* a reference-relative tile (shifted) before any rotation
  probe_tile,           \* the tile after the rotations applied so far
  probe_total,          \* the sum of the degrees applied so far, mod 360
  probe_turns,          \* how many rotations have been applied
  \* --- the choice image generators (cards.rs, main.rs) ---
  gen_tiles,            \* tiles
  gen_image,            \* terrain_image: width, height, pixel_size, data
  gen_result,           \* the Image returned, Absent before the call and after a panic
  gen_panicked,         \* the call panicked
  gen_card,             \* the card choices are generated for, Absent outside such a call
  gen_choices,          \* cards.rs: the Vec<Choice> returned, Absent before the call
  gen_card_choices      \* main.rs: the Option<Choices> returned, Absent before the call

placementVars ==
  <<cells, cell_size_skew, choice, rotation, latest_hovered_cell, occupied_tiles,
    sprite_white, snap_events>>

pipelineVars ==
  <<tracking, load_state, trackers, choices_inserted, terrain_images_loaded, generated,
    tracked, callbacks, callback_ids, systems, fired, tick>>

sessionVars ==
  <<deck, discard_pile, drawn_card, drawn_changed, category_loaded, generated_sprites,
    image_generations>>

commitVars == <<cell_writes, confirms>>

probeVars == <<probe_origin, probe_tile, probe_total, probe_turns>>

generatorVars ==
  <<gen_tiles, gen_image, gen_result, gen_panicked, gen_card, gen_choices,
    gen_card_choices>>

vars == <<placementVars, pipelineVars, sessionVars, commitVars, probeVars, generatorVars>>

\* ------------------------------------------------------------------------
\* The grid (map.rs setup)
\* ------------------------------------------------------------------------

\* map_dimension = (11, 11)
GridRows == 11

GridColumns == 11

Indices == (0..(GridRows - 1)) \X (0..(GridColumns - 1))

Mountains == {<<1,3>>, <<2,8>>, <<5,5>>, <<8,2>>, <<9,7>>}

\* the terrain setup gives the cell at index
SetupTerrain(index) == IF index \in Mountains THEN "Mountain" ELSE "None"

\* the cells spawned by setup; cells holds the terrain of the cells that are not
\* None, every other Cell of the grid is None
SetupCells ==
  [index \in {i \in Indices : SetupTerrain(i) # "None"} |-> SetupTerrain(index)]

\* a grid without any terrain (the grid of the end-to-end scenario)
EmptyCells == [index \in {} |-> "None"]

\* Cell.terrain of the Cell at index
CellTerrain(cs, index) == IF index \in DOMAIN cs THEN cs[index] ELSE "None"

\* ------------------------------------------------------------------------
\* snap_selected_choice_to_cell
\* ------------------------------------------------------------------------

\* (n as f32 * size) / size in f32: exact when n is a power of two, else within
\* one ulp of n, on the side the cell size decides.  <<n, e>> stands for n + e ulp.
SizeInCells(n, skew) == <<n, IF n \in {1, 2, 4, 8} THEN 0 ELSE skew>>

\* ((q - k) / 2.0).floor() for q = <<n, e>> and an integer k <= n
FloorHalf(q, k) ==
  LET m == q[1] - k
  IN  IF q[2] < 0 /\ m % 2 = 0 THEN (m \div 2) - 1 ELSE m \div 2

\* variant: the reference tile without the - Vec2::X of the row
ReferenceCellNoOffset(tiles, skew) ==
  <<FloorHalf(SizeInCells(ChoiceRows(tiles), skew[2]), 0),
    FloorHalf(SizeInCells(ChoiceColumns(tiles), skew[1]), 0)>>

\* variant: the reference tile taken in column 0 of the bounding box
ReferenceCellColumnZero(tiles, skew) ==
  <<FloorHalf(SizeInCells(ChoiceRows(tiles), skew[2]), 1), 0>>

\* reference_cell = (((choice_size / cell_size).yx() - Vec2::X) / 2.0).floor()
ReferenceCell(tiles, skew) ==
  <<FloorHalf(SizeInCells(ChoiceRows(tiles), skew[2]), 1),
    FloorHalf(SizeInCells(ChoiceColumns(tiles), skew[1]), 0)>>

\* variant: the quarter turns without their sign change
RotateTileUnsigned(shifted, degrees) ==
  IF degrees = 90 THEN <<shifted[2], shifted[1]>>
  ELSE IF degrees = 180 THEN <<-shifted[1], -shifted[2]>>
  ELSE IF degrees = 270 THEN <<shifted[2], shifted[1]>>
  ELSE shifted

\* variant: the 90 degree map reads the column twice
RotateTileCollapsed(shifted, degrees) ==
  IF degrees = 90 THEN <<shifted[2], -shifted[2]>>
  ELSE IF degrees = 180 THEN <<-shifted[1], -shifted[2]>>
  ELSE IF degrees = 270 THEN <<-shifted[2], shifted[1]>>
  ELSE shifted

\* variant: the 90 and 270 degree maps exchanged
RotateTileMirrored(shifted, degrees) ==
  IF degrees = 90 THEN <<-shifted[2], shifted[1]>>
  ELSE IF degrees = 180 THEN <<-shifted[1], -shifted[2]>>
  ELSE IF degrees = 270 THEN <<shifted[2], -shifted[1]>>
  ELSE shifted

\* the rotation of one reference-relative tile
RotateTile(shifted, degrees) ==
  IF degrees = 90 THEN <<shifted[2], -shifted[1]>>
  ELSE IF degrees = 180 THEN <<-shifted[1], -shifted[2]>>
  ELSE IF degrees = 270 THEN <<-shifted[2], shifted[1]>>
  ELSE shifted

\* shifted_tiles
ShiftedTiles(tiles, reference_cell, degrees) ==
  [i \in DOMAIN tiles |->
     RotateTile(<<tiles[i][1] - reference_cell[1], tiles[i][2] - reference_cell[2]>>,
                degrees)]

\* variant: the hovered index read as (column, row)
OccupiedTilesTransposed(tiles, skew, degrees, index) ==
  LET shifted == ShiftedTiles(tiles, ReferenceCell(tiles, skew), degrees)
  IN  [i \in DOMAIN shifted |-> <<-shifted[i][1] + index[2], shifted[i][2] + index[1]>>]

\* occupied_tiles = (-row + cell.index.0, column + cell.index.1)
OccupiedTiles(tiles, skew, degrees, index) ==
  LET shifted == ShiftedTiles(tiles, ReferenceCell(tiles, skew), degrees)
  IN  [i \in DOMAIN shifted |-> <<-shifted[i][1] + index[1], shifted[i][2] + index[2]>>]

\* ------------------------------------------------------------------------
\* highlight_selected_choice
\* ------------------------------------------------------------------------

\* variant: only the lower bounds are tested
OutsideGridLowerOnly(occupied) ==
  \E i \in DOMAIN occupied : occupied[i][1] < 0 \/ occupied[i][2] < 0

OutsideGrid(occupied) ==
  \E i \in DOMAIN occupied :
     \/ occupied[i][1] < 0
     \/ occupied[i][2] < 0
     \/ occupied[i][1] >= GridRows
     \/ occupied[i][2] >= GridColumns

\* variant: only the mountains count as placed
PlacedCellsMountainsOnly(cs) == {index \in Indices : CellTerrain(cs, index) = "Mountain"}

\* placed_cells: the cells whose terrain is not None
PlacedCells(cs) == {index \in Indices : CellTerrain(cs, index) # "None"}

\* variant: only the first occupied tile is tested against the placed cells
CollidingWithCellFirstOnly(occupied, cs) ==
  LET placed_cells == PlacedCells(cs)
  IN  occupied # <<>> /\ occupied[1] \in placed_cells

CollidingWithCell(occupied, cs) ==
  LET placed_cells == PlacedCells(cs)
  IN  \E i \in DOMAIN occupied : occupied[i] \in placed_cells

\* the sprite colour after highlight_selected_choice: WHITE unless outside or colliding
HighlightWhite(occupied, cs) ==
  IF occupied = Absent THEN TRUE
  ELSE ~(OutsideGrid(Unwrap(occupied)) \/ CollidingWithCell(Unwrap(occupied), cs))

\* ------------------------------------------------------------------------
\* Pipeline: handles and stages
\* ------------------------------------------------------------------------

\* terrains whose base texture load_assets requests (7 in terrain.rs)
NumTerrains == 2

\* choice images generate_choices adds (one per choice of the catalog)
NumChoiceImages == 2

\* handles a resource registered with resource_tracking may track
NumTracked == 2

TerrainHandles == {<<"terrain", i>> : i \in 1..NumTerrains}

\* PlayerMaps { side_a, side_b }
MapHandles == {<<"map", "side_a">>, <<"map", "side_b">>}

ChoiceHandles == {<<"choice", i>> : i \in 1..NumChoiceImages}

GenericHandles == {<<"tracked", i>> : i \in 1..NumTracked}

Handles == TerrainHandles \cup MapHandles \cup ChoiceHandles \cup GenericHandles

\* the resource types registered with resource_tracking
TypeIds == {"TypeA", "TypeB"}

AssetStages == {"TerrainImages", "Choices"}

Stages == AssetStages \cup TypeIds

\* variant: TerrainImages reports the handle of its first terrain only
StageHandlesFirstTerrain(stage) ==
  IF stage = "TerrainImages" THEN {<<"terrain", 1>>}
  ELSE IF stage = "Choices" THEN ChoiceHandles
  ELSE Unwrap(tracked[stage])

\* TrackableResource::get_handles / get_handles_to_track
StageHandles(stage) ==
  IF stage = "TerrainImages" THEN TerrainHandles
  ELSE IF stage = "Choices" THEN ChoiceHandles
  ELSE Unwrap(tracked[stage])

\* variant: one loaded handle is enough
AnyLoaded(handles, states) ==
  \E handle \in handles : states[handle] = "loaded"

\* variant: a handle whose load failed counts as done
AllSettled(handles, states) ==
  \A handle \in handles : states[handle] \in {"loaded", "failed"}

\* handles.iter().all(|handle| asset_server.is_loaded_with_dependencies(handle))
AllLoaded(handles, states) ==
  \A handle \in handles : states[handle] = "loaded"

\* the stages waiting for their handles
Pending(stage) == stage \in trackers \/ stage \in callbacks

\* the stage has been registered at some time
Registered(stage) ==
  IF stage = "TerrainImages" THEN tracking = "asset_manager"
  ELSE IF stage = "Choices" THEN choices_inserted
  ELSE tracked[stage] # Absent

\* ------------------------------------------------------------------------
\* Pipeline: the asset server
\* ------------------------------------------------------------------------

\* a handle and its dependencies finish loading
Load(handle) ==
  /\ load_state[handle] = "loading"
  /\ load_state' = [load_state EXCEPT ![handle] = "loaded"]
  /\ UNCHANGED <<tracking, trackers, choices_inserted, terrain_images_loaded, generated,
                 tracked, callbacks, callback_ids, systems, fired, tick>>
  /\ UNCHANGED <<placementVars, sessionVars, commitVars, probeVars, generatorVars>>

\* a handle loaded from a path fails to load, for good
Fail(handle) ==
  /\ handle \notin ChoiceHandles
  /\ load_state[handle] = "loading"
  /\ load_state' = [load_state EXCEPT ![handle] = "failed"]
  /\ UNCHANGED <<tracking, trackers, choices_inserted, terrain_images_loaded, generated,
                 tracked, callbacks, callback_ids, systems, fired, tick>>
  /\ UNCHANGED <<placementVars, sessionVars, commitVars, probeVars, generatorVars>>

\* ------------------------------------------------------------------------
\* Pipeline: asset_manager.rs
\* ------------------------------------------------------------------------

\* variant: the ResourceTracker of a stage that fired is left in place
TrackersAfterKept(present, firing) == present

\* commands.remove_resource::<ResourceTracker<T>>() for every stage that fired
TrackersAfter(present, firing) == present \ firing

\* one PreUpdate run of the asset_manager systems and of their commands:
\* track_resource::<TerrainImages>, track_resource::<Choices>, generate_choices
AssetManagerTick ==
  /\ tracking = "asset_manager"
  /\ LET firing == {stage \in trackers : AllLoaded(StageHandles(stage), load_state)}
         generating == terrain_images_loaded   \* run_if(on_event::<TerrainImagesLoaded>)
     IN  /\ fired' = [stage \in Stages |->
                        IF stage \in firing THEN fired[stage] + 1 ELSE fired[stage]]
         /\ terrain_images_loaded' = ("TerrainImages" \in firing)
         /\ trackers' =
              TrackersAfter(trackers, firing)
                \cup (IF generating THEN {"Choices"} ELSE {})
         /\ choices_inserted' = (choices_inserted \/ generating)
         /\ generated' = IF generating THEN generated + 1 ELSE generated
         /\ load_state' =
              IF generating
              THEN [handle \in Handles |->
                      IF handle \in ChoiceHandles THEN "loading" ELSE load_state[handle]]
              ELSE load_state
  /\ tick' = 1 - tick
  /\ UNCHANGED <<tracking, tracked, callbacks, callback_ids, systems>>
  /\ UNCHANGED <<placementVars, sessionVars, commitVars, probeVars, generatorVars>>

\* ------------------------------------------------------------------------
\* Pipeline: resource_tracking.rs
\* ------------------------------------------------------------------------

\* variant: the callback of a stage that fired stays registered
CallbacksAfterKept(present, firing) == present

\* callbacks.remove(&TypeId::of::<T>()) for every stage that fired
CallbacksAfter(present, firing) == present \ firing

\* one-shot systems registered with the World at one time, at most
MaxSystems == 3

\* the SystemId entities register_system may return
SystemIds == 1..MaxSystems

\* the keys of a HashMap given by its entries
Keys(entries) == {entry[1] : entry \in entries}

\* the entries a HashMap holds for key
EntriesOf(entries, key) == {entry \in entries : entry[1] = key}

\* variant: an insert adds an entry next to the one the key has
HashMapInsertAppending(entries, key, value) == entries \cup {<<key, value>>}

\* HashMap::insert: the entry of key is replaced
HashMapInsert(entries, key, value) ==
  {entry \in entries : entry[1] # key} \cup {<<key, value>>}

\* the SystemIds no registered system has
FreeSystemIds(registered) == SystemIds \ {system[2] : system \in registered}

\* world.register_system: a SystemId no registered system has (which one does not
\* matter to any system: the first)
RegisterSystem(registered) ==
  CHOOSE system_id \in FreeSystemIds(registered) :
    \A other \in FreeSystemIds(registered) : system_id <= other

\* commands.insert_trackable_resource(resource) with get_handles_to_track() = handles
InsertTrackableResource(type, handles) ==
  /\ tracking = "resource_tracking"
  /\ tracked' = [tracked EXCEPT ![type] = Some(handles)]
  /\ FreeSystemIds(systems) # {}
  /\ LET system_id == RegisterSystem(systems)
     IN  /\ systems' = systems \cup {<<type, system_id>>}
         /\ callback_ids' = HashMapInsert(callback_ids, type, system_id)
  /\ callbacks' = Keys(callback_ids')
  /\ fired' = [fired EXCEPT ![type] = 0]
  /\ UNCHANGED <<tracking, load_state, trackers, choices_inserted, terrain_images_loaded,
                 generated, tick>>
  /\ UNCHANGED <<placementVars, sessionVars, commitVars, probeVars, generatorVars>>

\* one PreUpdate run: track_resources queues every callback, each track_resource::<T>
\* runs and its commands (remove the callback, run the reaction) are applied
ResourceTrackingTick ==
  /\ tracking = "resource_tracking"
  /\ LET firing == {type \in callbacks : AllLoaded(StageHandles(type), load_state)}
         removed == {entry \in callback_ids : entry[1] \notin CallbacksAfter(callbacks, firing)}
     IN  /\ callbacks' = CallbacksAfter(callbacks, firing)
         /\ callback_ids' = callback_ids \ removed
         /\ systems' = systems \ removed          \* world.unregister_system(system_id)
         /\ fired' = [stage \in Stages |->
                        IF stage \in firing
                        THEN fired[stage] + Cardinality(EntriesOf(callback_ids, stage))
                        ELSE fired[stage]]
  /\ tick' = 1 - tick
  /\ UNCHANGED <<tracking, load_state, trackers, choices_inserted, terrain_images_loaded,
                 generated, tracked>>
  /\ UNCHANGED <<placementVars, sessionVars, commitVars, probeVars, generatorVars>>

Tick == AssetManagerTick \/ ResourceTrackingTick

\* ------------------------------------------------------------------------
\* Session (main.rs): the deck and the choice images of the drawn card
\* ------------------------------------------------------------------------

\* cards of the session (17 in main.rs setup)
NumCards == 3

\* most calls of create_choice_image for one image key before drawing stops
MaxGenerations == 2

\* the cards of the session, a card without choices first
SessionOrder ==
  <<"TempleRuins05", "Farmland08", "HinterlandStream11", "GoblinAttack01", "RiftLands17",
    "OutpostRuins06", "GreatRiver07", "Hamlet09", "ForgottenForest10", "Homestead12",
    "Orchard13", "TreetopVillage14", "Marshlands15", "FishingVillage16",
    "BugbearAssault02", "KoboldOnslaught03", "GnollRaid04">>

SessionCards == {SessionOrder[i] : i \in 1..NumCards}

\* main.rs names the Farm terrain Field
CategoryOf(terrain) == IF terrain = "Farm" THEN "Field" ELSE terrain

\* generate_choices(card): Choices(vec![Choice { categories, tiles, with_coin }]),
\* the empty sequence for the cards without a Choices component
CardChoices(card) ==
  LET p == Permutation(card)
  IN  [k \in 1..Len(p.tiles) |->
         [categories |-> [j \in 1..Len(p.terrains) |-> CategoryOf(p.terrains[j])],
          tiles |-> p.tiles[k][1],
          with_coin |-> p.tiles[k][2]]]

\* the (choice, category) pairs of a card in the order create_choices visits them;
\* <<card, k, category>> is the key of the image made for the pair
ImageKeys(card) ==
  LET cs == CardChoices(card)
      nc == IF Len(cs) = 0 THEN 0 ELSE Len(cs[1].categories)
  IN  [n \in 1..(Len(cs) * nc) |->
         <<card, ((n - 1) \div nc) + 1, cs[((n - 1) \div nc) + 1].categories[((n - 1) % nc) + 1]>>]

AllImageKeys == UNION {Range(ImageKeys(card)) : card \in SessionCards}

SessionCategories == {key[3] : key \in AllImageKeys}

\* the pairs create_choices gets through before it meets an image that is not loaded
KeysCreated(card, loaded) ==
  LET keys == ImageKeys(card)
      missing == {n \in DOMAIN keys : keys[n][3] \notin loaded}
      count == IF missing = {} THEN Len(keys)
               ELSE (CHOOSE n \in missing : \A m \in missing : n <= m) - 1
  IN  {keys[n] : n \in 1..count}

Orderings(S) ==
  {order \in [1..Cardinality(S) -> S] : \A i, j \in DOMAIN order : i # j => order[i] # order[j]}

\* the image of a category finishes loading
LoadCategory(category) ==
  /\ category \notin category_loaded
  /\ category_loaded' = category_loaded \cup {category}
  /\ UNCHANGED <<deck, discard_pile, drawn_card, drawn_changed, generated_sprites,
                 image_generations>>
  /\ UNCHANGED <<placementVars, pipelineVars, commitVars, probeVars, generatorVars>>

\* draw_card with an empty deck: the discard pile is shuffled into the deck
Reshuffle(order) ==
  /\ deck = <<>>
  /\ discard_pile # <<>>          \* discard_pile.0.last().expect("cards")
  /\ order \in Orderings(Range(discard_pile))
  /\ deck' = order
  /\ discard_pile' = <<>>
  /\ UNCHANGED <<drawn_card, drawn_changed, category_loaded, generated_sprites,
                 image_generations>>
  /\ UNCHANGED <<placementVars, pipelineVars, commitVars, probeVars, generatorVars>>

\* variant: the card drawn before is not put on the discard pile
DrawCardKeepingPile ==
  /\ deck # <<>>
  /\ \A key \in AllImageKeys : image_generations[key] < MaxGenerations
  /\ discard_pile' = discard_pile
  /\ drawn_card' = Head(deck)
  /\ deck' = Tail(deck)
  /\ drawn_changed' = TRUE
  /\ UNCHANGED <<category_loaded, generated_sprites, image_generations>>
  /\ UNCHANGED <<placementVars, pipelineVars, commitVars, probeVars, generatorVars>>

\* draw_card with cards in the deck
DrawCard ==
  /\ deck # <<>>
  /\ \A key \in AllImageKeys : image_generations[key] < MaxGenerations
  /\ discard_pile' = Append(discard_pile, drawn_card)
  /\ drawn_card' = Head(deck)     \* deck.pop_front()
  /\ deck' = Tail(deck)
  /\ drawn_changed' = TRUE
  /\ UNCHANGED <<category_loaded, generated_sprites, image_generations>>
  /\ UNCHANGED <<placementVars, pipelineVars, commitVars, probeVars, generatorVars>>

\* variant: an image that was created before is taken from a store
GenerationsAfterCached(counts, created) ==
  [key \in DOMAIN counts |->
     IF key \in created /\ counts[key] = 0 THEN 1 ELSE counts[key]]

\* create_choice_image is called once for every pair create_choices gets through
GenerationsAfter(counts, created) ==
  [key \in DOMAIN counts |-> IF key \in created THEN counts[key] + 1 ELSE counts[key]]

\* create_choices, on a frame where DrawnCard is changed
CreateChoices ==
  /\ drawn_changed
  /\ drawn_changed' = FALSE
  /\ LET created == KeysCreated(drawn_card, category_loaded)
     IN  /\ generated_sprites' = created
         /\ image_generations' = GenerationsAfter(image_generations, created)
  /\ UNCHANGED <<deck, discard_pile, drawn_card, category_loaded>>
  /\ UNCHANGED <<placementVars, pipelineVars, commitVars, probeVars, generatorVars>>

\* ------------------------------------------------------------------------
\* Placement: inputs
\* ------------------------------------------------------------------------

\* the horizontal two-tile shape of the end-to-end scenario (no card offers it)
ScenarioDomino == Choice("Farm", << <<0,0>>, <<0,1>> >>, FALSE)

SelectableChoices == CatalogChoices \cup {ScenarioDomino}

\* Grid.cell_size rounding classes, per axis (x, y)
CellSizeSkews == {<<0, 0>>, <<-1, -1>>, <<1, 1>>}

\* the grids a placement starts from: the scenario's empty grid and setup's grid
GridInputs ==
  {[cells |-> EmptyCells, skew |-> <<0, 0>>]}
    \cup {[cells |-> SetupCells, skew |-> k] : k \in CellSizeSkews}

\* most SnapSelectedChoiceToCell events one frame delivers
MaxBatch == 2

\* the cells a pointer sweep crosses when it enters several cells in one frame
BurstCells == {<<0, 0>>, <<10, 10>>}

\* the grid lines whose cells the pointer enters
ProbeLines == {0, 1, 5, 9, 10}

ProbeCells == {index \in Indices : index[1] \in ProbeLines /\ index[2] \in ProbeLines}

\* the event batches of one frame: one Pointer<Over>, or a sweep over BurstCells
EventBatches ==
  {<<index>> : index \in ProbeCells}
    \cup UNION {[1..n -> BurstCells] : n \in 2..MaxBatch}

\* ------------------------------------------------------------------------
\* Placement: actions
\* ------------------------------------------------------------------------

\* a choice is picked: the candidate appears with rotation 0 and no anchor
SelectChoice(c) ==
  /\ choice = Absent
  /\ choice' = Some(c)
  /\ rotation' = 0
  /\ latest_hovered_cell' = Absent
  /\ occupied_tiles' = Absent
  /\ sprite_white' = FALSE
  /\ snap_events' = <<>>
  /\ UNCHANGED <<cells, cell_size_skew>>
  /\ UNCHANGED <<pipelineVars, sessionVars, commitVars, probeVars, generatorVars>>

\* the candidate is dropped without touching the grid
CancelChoice ==
  /\ choice # Absent
  /\ choice' = Absent
  /\ rotation' = 0
  /\ latest_hovered_cell' = Absent
  /\ occupied_tiles' = Absent
  /\ sprite_white' = FALSE
  /\ snap_events' = <<>>
  /\ UNCHANGED <<cells, cell_size_skew>>
  /\ UNCHANGED <<pipelineVars, sessionVars, commitVars, probeVars, generatorVars>>

\* new rotation = (current + 90 * direction + 360) mod 360; occupied cells are stale
RotateChoice(direction) ==
  /\ choice # Absent
  /\ rotation' = (rotation + 90 * direction + 360) % 360
  /\ occupied_tiles' = Absent
  /\ snap_events' = <<>>
  /\ UNCHANGED <<cells, cell_size_skew, choice, latest_hovered_cell, sprite_white>>
  /\ UNCHANGED <<pipelineVars, sessionVars, commitVars, probeVars, generatorVars>>

\* one Update frame with events: snap_selected_choice_to_cell, then
\* highlight_selected_choice (chained)
SnapFrame(events) ==
  /\ choice # Absent
  /\ LET index == Head(events)   \* event_reader.read().next()
         occupied ==
           OccupiedTiles(Unwrap(choice).tiles, cell_size_skew, rotation, index)
     IN  /\ latest_hovered_cell' = Some(index)
         /\ occupied_tiles' = Some(occupied)
         /\ sprite_white' = HighlightWhite(Some(occupied), cells)
  /\ snap_events' = events        \* all read or cleared: event_reader.clear()
  /\ UNCHANGED <<cells, cell_size_skew, choice, rotation>>
  /\ UNCHANGED <<pipelineVars, sessionVars, commitVars, probeVars, generatorVars>>

\* ------------------------------------------------------------------------
\* Placement: committing the candidate
\* ------------------------------------------------------------------------

\* the candidate can be committed: it has occupied cells and is shown as valid
Committable == choice # Absent /\ occupied_tiles # Absent /\ sprite_white

\* variant: only the first occupied cell is written
CellsAfterCommitFirstOnly(cs, occupied, terrain) ==
  [index \in DOMAIN cs \cup {occupied[1]} |->
     IF index = occupied[1] THEN terrain ELSE cs[index]]

\* Cell.terrain of every occupied cell set to the committed terrain
CellsAfterCommit(cs, occupied, terrain) ==
  [index \in DOMAIN cs \cup Range(occupied) |->
     IF index \in Range(occupied) THEN terrain ELSE cs[index]]

\* the commits that have written the cell at index
Writes(writes, index) == IF index \in DOMAIN writes THEN writes[index] ELSE 0

WritesAfterCommit(writes, occupied) ==
  [index \in DOMAIN writes \cup Range(occupied) |->
     IF index \in Range(occupied) THEN Writes(writes, index) + 1
     ELSE writes[index]]

\* a confirm request: accepted only for a committable candidate, which is written to
\* the grid and destroyed; otherwise nothing changes
Commit ==
  /\ choice # Absent
  /\ confirms' = 1 - confirms
  /\ IF Committable
     THEN /\ cells' = CellsAfterCommit(cells, Unwrap(occupied_tiles), Unwrap(choice).terrain)
          /\ cell_writes' = WritesAfterCommit(cell_writes, Unwrap(occupied_tiles))
          /\ choice' = Absent
          /\ rotation' = 0
          /\ latest_hovered_cell' = Absent
          /\ occupied_tiles' = Absent
          /\ sprite_white' = FALSE
          /\ snap_events' = <<>>
          /\ UNCHANGED cell_size_skew
     ELSE UNCHANGED <<placementVars, cell_writes>>
  /\ UNCHANGED <<pipelineVars, sessionVars, probeVars, generatorVars>>

\* the shapes offered while commits are followed: the two-tile shape of Farmland08
\* and the single tile of RiftLands17 as Forest
CommitChoices ==
  {Choice("Farm", << <<0,0>>, <<1,0>> >>, TRUE), Choice("Forest", SingleTile, FALSE)}

\* the cells the pointer enters while commits are followed, beside the mountain (5,5)
CommitHoverCells == {<<5, 4>>, <<4, 5>>}

\* ------------------------------------------------------------------------
\* The choice image generators (cards.rs generate_choice_image,
\* main.rs create_choice_image)
\* ------------------------------------------------------------------------

\* largest width and height of a terrain image, in pixels
MaxTileSide == 2

\* largest format.pixel_size(), in bytes
MaxPixelSize == 2

\* a byte buffer being written, or the panic that ended the writing
Buffer(data) == [panicked |-> FALSE, data |-> data]

Panic == [panicked |-> TRUE, data |-> <<>>]

\* an Image: its size, the bytes of one pixel, and its data
Image(width, height, pixel_size, data) ==
  [width |-> width, height |-> height, pixel_size |-> pixel_size, data |-> data]

\* a terrain image whose bytes are all different and none zero
TerrainImage(width, height, pixel_size) ==
  Image(width, height, pixel_size, [i \in 1..(width * height * pixel_size) |-> i])

TerrainImageInputs ==
  {TerrainImage(w, h, p) : w \in 1..MaxTileSide, h \in 1..MaxTileSide, p \in 1..MaxPixelSize}

\* the tiles the generator is called with: every shape of the catalog, the two-tile
\* shape of the scenario, and no tiles at all
TileInputs ==
  {c.tiles : c \in CatalogChoices} \cup {ScenarioDomino.tiles} \cup {<<>>}

\* variant: the largest value, or 0 when there is none
IterMaxOrZero(values) == IF values = {} THEN Some(0) ELSE Some(SetMax(values))

\* Iterator::max: None for an empty iterator
IterMax(values) == IF values = {} THEN Absent ELSE Some(SetMax(values))

\* variant: the columns read from the first component of a tile
ColumnsPlusOneFromRows(tiles) == {tiles[i][1] + 1 : i \in DOMAIN tiles}

\* tiles.iter().map(|(_, y)| y + 1)
ColumnsPlusOne(tiles) == {tiles[i][2] + 1 : i \in DOMAIN tiles}

\* tiles.iter().map(|(x, _)| x + 1)
RowsPlusOne(tiles) == {tiles[i][1] + 1 : i \in DOMAIN tiles}

\* variant: the tile's own row taken as the row band
ChoiceRowBandDirect(rows, choice_row) == choice_row

\* choice_row = (total_height / terrain_height) - choice_row - 1
ChoiceRowBand(rows, choice_row) == rows - choice_row - 1

\* dst[start..start + len].copy_from_slice(&src[from..from + len]), offsets from 0;
\* a range that leaves either slice panics
CopyFromSlice(dst, start, src, from, len) ==
  IF dst.panicked \/ start + len > Len(dst.data) \/ from + len > Len(src) THEN Panic
  ELSE Buffer([i \in 1..Len(dst.data) |->
                 IF i - 1 >= start /\ i - 1 < start + len
                 THEN src[from + (i - 1 - start) + 1]
                 ELSE dst.data[i]])

RECURSIVE BlitRows(_, _, _, _, _, _)
\* for terrain_row in from_row..terrain_height: one scanline of the terrain image
\* copied into the band choice_row at column choice_column
BlitRows(choice_data, terrain_image, total_width, choice_row, choice_column, terrain_row) ==
  IF terrain_row >= terrain_image.height THEN choice_data
  ELSE
    LET pixel_size == terrain_image.pixel_size
        terrain_row_length == terrain_image.width * pixel_size
        terrain_row_start == terrain_row * terrain_row_length
        choice_row_start ==
          (choice_row * total_width * terrain_image.height
             + choice_column * terrain_image.width
             + terrain_row * total_width) * pixel_size
    IN  BlitRows(CopyFromSlice(choice_data, choice_row_start, terrain_image.data,
                               terrain_row_start, terrain_row_length),
                 terrain_image, total_width, choice_row, choice_column, terrain_row + 1)

RECURSIVE BlitTiles(_, _, _, _, _, _)
\* for (choice_row, choice_column) in tiles, from the k-th tile on
BlitTiles(choice_data, terrain_image, total_width, total_height, tiles, k) ==
  IF k > Len(tiles) THEN choice_data
  ELSE
    LET choice_row == ChoiceRowBand(total_height \div terrain_image.height, tiles[k][1])
    IN  BlitTiles(BlitRows(choice_data, terrain_image, total_width, choice_row,
                           tiles[k][2], 0),
                  terrain_image, total_width, total_height, tiles, k + 1)

\* the image both generators build from the two maxima; Absent when the call panics
ComposedImage(max_column, max_row, tiles, terrain_image) ==
  IF max_column = Absent \/ max_row = Absent THEN Absent   \* expect("tiles") / unwrap()
  ELSE
    LET total_width == Unwrap(max_column) * terrain_image.width
        total_height == Unwrap(max_row) * terrain_image.height
        filled ==
          Buffer([i \in 1..(total_width * total_height * terrain_image.pixel_size) |-> 0])
        written == BlitTiles(filled, terrain_image, total_width, total_height, tiles, 1)
    IN  IF written.panicked THEN Absent
        ELSE Some(Image(total_width, total_height, terrain_image.pixel_size, written.data))

\* cards.rs generate_choice_image(tiles, terrain_image)
GenerateChoiceImageOf(tiles, terrain_image) ==
  ComposedImage(IterMax(ColumnsPlusOne(tiles)), IterMax(RowsPlusOne(tiles)),
                tiles, terrain_image)

\* main.rs create_choice_image(image, tiles)
CreateChoiceImageOf(image, tiles) ==
  ComposedImage(IterMax(ColumnsPlusOne(tiles)), IterMax(RowsPlusOne(tiles)), tiles, image)

\* a call of generate_choice_image
GenerateChoiceImage ==
  /\ gen_result = Absent /\ ~gen_panicked
  /\ gen_result' = GenerateChoiceImageOf(gen_tiles, Unwrap(gen_image))
  /\ gen_panicked' = (gen_result' = Absent)
  /\ UNCHANGED <<gen_tiles, gen_image, gen_card, gen_choices, gen_card_choices>>
  /\ UNCHANGED <<placementVars, pipelineVars, sessionVars, commitVars, probeVars>>

\* a call of create_choice_image
CreateChoiceImage ==
  /\ gen_result = Absent /\ ~gen_panicked
  /\ gen_result' = CreateChoiceImageOf(Unwrap(gen_image), gen_tiles)
  /\ gen_panicked' = (gen_result' = Absent)
  /\ UNCHANGED <<gen_tiles, gen_image, gen_card, gen_choices, gen_card_choices>>
  /\ UNCHANGED <<placementVars, pipelineVars, sessionVars, commitVars, probeVars>>

\* DrawableCard::generate_choices with the image generate_choice_image makes of every
\* choice; every terrain of terrain_images has the image terrain_image
GenerateChoicesWithImages(card, terrain_image) ==
  LET choices == GenerateChoices(card)
  IN  [k \in DOMAIN choices |->
         [terrain |-> choices[k].terrain,
          image |-> GenerateChoiceImageOf(choices[k].tiles, terrain_image),
          tiles |-> choices[k].tiles,
          with_coin |-> choices[k].with_coin]]

\* main.rs generate_choices(card): None for a card without shapes
GenerateChoicesOption(card) ==
  IF CardChoices(card) = <<>> THEN Absent ELSE Some(CardChoices(card))

\* a call of DrawableCard::generate_choices (cards.rs)
GenerateCardChoices ==
  /\ gen_card # Absent
  /\ gen_choices = Absent
  /\ gen_choices' = Some(GenerateChoicesWithImages(Unwrap(gen_card), Unwrap(gen_image)))
  /\ UNCHANGED <<gen_tiles, gen_image, gen_result, gen_panicked, gen_card, gen_card_choices>>
  /\ UNCHANGED <<placementVars, pipelineVars, sessionVars, commitVars, probeVars>>

\* a call of generate_choices(card) (main.rs setup)
GenerateChoicesForCard ==
  /\ gen_card # Absent
  /\ gen_card_choices = Absent
  /\ gen_card_choices' = Some(GenerateChoicesOption(Unwrap(gen_card)))
  /\ UNCHANGED <<gen_tiles, gen_image, gen_result, gen_panicked, gen_card, gen_choices>>
  /\ UNCHANGED <<placementVars, pipelineVars, sessionVars, commitVars, probeVars>>

\* ------------------------------------------------------------------------
\* The rotation of one tile, applied repeatedly
\* ------------------------------------------------------------------------

\* largest row or column distance of a tile from the reference tile
MaxOffset == 3

\* most rotations applied to one tile
MaxTurns == 4

\* the reference-relative tiles (shifted) a rotation is applied to
Offsets == (-MaxOffset..MaxOffset) \X (-MaxOffset..MaxOffset)

\* the values of rotation.to_degrees() with a branch of their own
QuarterTurns == {90, 180, 270}

\* the rotation branch of degrees applied to the tile the earlier ones produced
ApplyRotation(degrees) ==
  /\ probe_turns < MaxTurns
  /\ probe_tile' = RotateTile(probe_tile, degrees)
  /\ probe_total' = (probe_total + degrees) % 360
  /\ probe_turns' = probe_turns + 1
  /\ UNCHANGED probe_origin
  /\ UNCHANGED <<placementVars, pipelineVars, sessionVars, commitVars, generatorVars>>

\* ------------------------------------------------------------------------
\* Specifications
\* ------------------------------------------------------------------------

\* the placement variables while no candidate exists
PlacementIdle ==
  /\ cells = SetupCells
  /\ cell_size_skew = <<0, 0>>
  /\ choice = Absent
  /\ rotation = 0
  /\ latest_hovered_cell = Absent
  /\ occupied_tiles = Absent
  /\ sprite_white = FALSE
  /\ snap_events = <<>>

\* the pipeline variables once startup is over and nothing is pending
PipelineIdle ==
  /\ tracking = "asset_manager"
  /\ load_state =
       [handle \in Handles |-> IF handle \in GenericHandles THEN "none" ELSE "loaded"]
  /\ trackers = {}
  /\ choices_inserted = TRUE
  /\ terrain_images_loaded = FALSE
  /\ generated = 1
  /\ tracked = [type \in TypeIds |-> Absent]
  /\ callbacks = {}
  /\ callback_ids = {}
  /\ systems = {}
  /\ fired = [stage \in Stages |-> IF stage \in AssetStages THEN 1 ELSE 0]
  /\ tick = 0

\* the session variables before setup has dealt the cards
SessionIdle ==
  /\ deck = <<>>
  /\ discard_pile = <<>>
  /\ drawn_card = SessionOrder[1]
  /\ drawn_changed = FALSE
  /\ category_loaded = {}
  /\ generated_sprites = {}
  /\ image_generations = [key \in AllImageKeys |-> 0]

\* no commit has written a cell and no confirm has been requested
CommitIdle ==
  /\ cell_writes = [index \in {} |-> 0]
  /\ confirms = 0

\* no tile is being rotated
ProbeIdle ==
  /\ probe_origin = <<0, 0>>
  /\ probe_tile = <<0, 0>>
  /\ probe_total = 0
  /\ probe_turns = 0

\* no choice image is being generated
GeneratorIdle ==
  /\ gen_tiles = <<>>
  /\ gen_image = Absent
  /\ gen_card = Absent
  /\ gen_choices = Absent
  /\ gen_card_choices = Absent
  /\ gen_result = Absent
  /\ gen_panicked = FALSE

\* after load_assets (asset_manager) or after plugin (resource_tracking)
InitPipeline ==
  /\ tracking \in {"asset_manager", "resource_tracking"}
  /\ load_state =
       [handle \in Handles |->
          IF tracking = "asset_manager"
          THEN (IF handle \in TerrainHandles \cup MapHandles THEN "loading" ELSE "none")
          ELSE (IF handle \in GenericHandles THEN "loading" ELSE "none")]
  /\ trackers = IF tracking = "asset_manager" THEN {"TerrainImages"} ELSE {}
  /\ choices_inserted = FALSE
  /\ terrain_images_loaded = FALSE
  /\ generated = 0
  /\ tracked = [type \in TypeIds |-> Absent]
  /\ callbacks = {}
  /\ callback_ids = {}
  /\ systems = {}
  /\ fired = [stage \in Stages |-> 0]
  /\ tick = 0

Init ==
  InitPipeline /\ PlacementIdle /\ SessionIdle /\ CommitIdle /\ ProbeIdle /\ GeneratorIdle

Next ==
  \/ \E handle \in Handles : Load(handle)
  \/ \E handle \in Handles : Fail(handle)
  \/ AssetManagerTick
  \/ \E type \in TypeIds, handles \in SUBSET GenericHandles :
        InsertTrackableResource(type, handles)
  \/ ResourceTrackingTick

Spec == Init /\ [][Next]_vars

\* after setup: the shuffled cards, the first drawn, the others in the deck
InitSession ==
  /\ \E order \in Orderings(SessionCards) :
        /\ drawn_card = Head(order)
        /\ deck = Tail(order)
  /\ discard_pile = <<>>
  /\ drawn_changed = TRUE
  /\ category_loaded = {}
  /\ generated_sprites = {}
  /\ image_generations = [key \in AllImageKeys |-> 0]

NextSession ==
  \/ \E category \in SessionCategories : LoadCategory(category)
  \/ \E order \in Orderings(Range(discard_pile)) : Reshuffle(order)
  \/ DrawCard
  \/ CreateChoices

SessionStart ==
  InitSession /\ PipelineIdle /\ PlacementIdle /\ CommitIdle /\ ProbeIdle /\ GeneratorIdle

SpecSession == SessionStart /\ [][NextSession]_vars

InitPlacement ==
  /\ \E g \in GridInputs : cells = g.cells /\ cell_size_skew = g.skew
  /\ choice = Absent
  /\ rotation = 0
  /\ latest_hovered_cell = Absent
  /\ occupied_tiles = Absent
  /\ sprite_white = FALSE
  /\ snap_events = <<>>

NextPlacement ==
  \/ \E c \in SelectableChoices : SelectChoice(c)
  \/ CancelChoice
  \/ \E direction \in {1, -1} : RotateChoice(direction)
  \/ \E events \in EventBatches : SnapFrame(events)

PlacementStart ==
  InitPlacement /\ PipelineIdle /\ SessionIdle /\ CommitIdle /\ ProbeIdle /\ GeneratorIdle

SpecPlacement == PlacementStart /\ [][NextPlacement]_vars

\* after setup: the grid with its mountains, no candidate, nothing committed
InitCommit ==
  /\ cells = SetupCells
  /\ cell_size_skew = <<0, 0>>
  /\ choice = Absent
  /\ rotation = 0
  /\ latest_hovered_cell = Absent
  /\ occupied_tiles = Absent
  /\ sprite_white = FALSE
  /\ snap_events = <<>>
  /\ cell_writes = [index \in {} |-> 0]
  /\ confirms = 0

NextCommit ==
  \/ \E c \in CommitChoices : SelectChoice(c)
  \/ CancelChoice
  \/ \E direction \in {1, -1} : RotateChoice(direction)
  \/ \E index \in CommitHoverCells : SnapFrame(<<index>>)
  \/ Commit

CommitStart == InitCommit /\ PipelineIdle /\ SessionIdle /\ ProbeIdle /\ GeneratorIdle

SpecCommit == CommitStart /\ [][NextCommit]_vars

\* the arguments of one call of a generator
InitGenerator ==
  /\ gen_tiles \in TileInputs
  /\ gen_image \in {Some(image) : image \in TerrainImageInputs}
  /\ gen_result = Absent
  /\ gen_panicked = FALSE
  /\ gen_card = Absent
  /\ gen_choices = Absent
  /\ gen_card_choices = Absent

NextGenerator == GenerateChoiceImage \/ CreateChoiceImage

GeneratorStart ==
  InitGenerator /\ PipelineIdle /\ PlacementIdle /\ SessionIdle /\ CommitIdle /\ ProbeIdle

SpecGenerator == GeneratorStart /\ [][NextGenerator]_vars

\* the arguments of one call of each generate_choices
InitCatalog ==
  /\ gen_card \in {Some(DrawableCard[i]) : i \in DOMAIN DrawableCard}
  /\ gen_image \in {Some(image) : image \in TerrainImageInputs}
  /\ gen_tiles = <<>>
  /\ gen_result = Absent
  /\ gen_panicked = FALSE
  /\ gen_choices = Absent
  /\ gen_card_choices = Absent

NextCatalog == GenerateCardChoices \/ GenerateChoicesForCard

CatalogStart ==
  InitCatalog /\ PipelineIdle /\ PlacementIdle /\ SessionIdle /\ CommitIdle /\ ProbeIdle

SpecCatalog == CatalogStart /\ [][NextCatalog]_vars

\* a reference-relative tile before any rotation
InitRotation ==
  /\ probe_origin \in Offsets
  /\ probe_tile = probe_origin
  /\ probe_total = 0
  /\ probe_turns = 0

NextRotation == \E degrees \in QuarterTurns : ApplyRotation(degrees)

RotationStart ==
  InitRotation /\ PipelineIdle /\ PlacementIdle /\ SessionIdle /\ CommitIdle /\ GeneratorIdle

SpecRotation == RotationStart /\ [][NextRotation]_vars

\* ------------------------------------------------------------------------
\* Pipeline: properties
\* ------------------------------------------------------------------------

\* a step that is a PreUpdate run
TickStep == tick' # tick

\* a pending stage whose handles all report loaded
StageReady(stage) ==
  Pending(stage) /\ \A handle \in StageHandles(stage) : load_state[handle] = "loaded"

\* a pending stage with a handle that does not report loaded
StageBlocked(stage) ==
  Pending(stage) /\ \E handle \in StageHandles(stage) : load_state[handle] # "loaded"

\* C1: a stage's reaction runs at most once per registration: a stage that is
\* registered and no longer pending has run its reaction exactly once, and a tick
\* taken after the reaction has run (its handles still loaded) does not run it again.
C1_ReactionAtMostOnce ==
  /\ [](\A stage \in Stages :
          /\ fired[stage] <= 1
          /\ (Registered(stage) /\ ~Pending(stage)) => fired[stage] = 1)
  /\ [][\A stage \in Stages :
          (TickStep /\ fired[stage] = 1) => fired'[stage] = 1]_vars

\* both stages of the startup chain have fired: the second fires on a tick later
\* than the first, with every terrain handle still loaded
C1_Witness ==
  /\ fired["TerrainImages"] = 1
  /\ fired["Choices"] = 1
  /\ \A handle \in TerrainHandles : load_state[handle] = "loaded"

\* C2: no step taken while a pending stage has a handle that is not loaded runs the
\* stage's reaction, and the stage is still pending after the step.
C2_BlockedStageStaysPending ==
  [][\A stage \in Stages :
       StageBlocked(stage) => (fired'[stage] = fired[stage] /\ Pending(stage)')]_vars

\* a tick has passed over a stage with one handle loaded and another not
C2_Witness ==
  /\ tick = 1
  /\ \E stage \in Stages :
        /\ StageBlocked(stage)
        /\ \E handle \in StageHandles(stage) : load_state[handle] = "loaded"
        /\ fired[stage] = 0

C4_FailedHandleBlocksStage ==
  /\ [][\A stage \in Stages :
          (Pending(stage) /\ \E handle \in StageHandles(stage) :
                               load_state[handle] = "failed")
            => (Pending(stage)' /\ fired'[stage] = 0)]_vars
  /\ []((\E handle \in TerrainHandles : load_state[handle] = "failed") =>
          /\ Pending("TerrainImages")
          /\ ~Registered("Choices")
          /\ ~Pending("Choices")
          /\ generated = 0
          /\ fired["TerrainImages"] = 0
          /\ fired["Choices"] = 0)

\* a tick has passed over TerrainImages with one handle failed and the others loaded
C4_Witness ==
  /\ tick = 1
  /\ Pending("TerrainImages")
  /\ \E handle \in TerrainHandles :
        /\ load_state[handle] = "failed"
        /\ \A other \in TerrainHandles \ {handle} : load_state[other] = "loaded"

\* C5 as claimed: once the reaction of the Choices stage has run (the game is ready
\* to play), every generated choice image and every map texture is loaded.
C5_AsClaimed ==
  fired["Choices"] >= 1 =>
    \A handle \in ChoiceHandles \cup MapHandles : load_state[handle] = "loaded"

\* ------------------------------------------------------------------------
\* Session: properties
\* ------------------------------------------------------------------------

\* C6 as claimed: whatever cards are drawn, the image of a (choice, category) key is
\* created at most once.
C6_AsClaimed == \A key \in AllImageKeys : image_generations[key] <= 1

\* ------------------------------------------------------------------------
\* Placement: properties
\* ------------------------------------------------------------------------

OccupiedCells == Range(Unwrap(occupied_tiles))

\* the scenario: the domino dragged over the empty grid, snapped to index at degrees
DominoSnapped(index, degrees) ==
  /\ cells = EmptyCells
  /\ choice = Some(ScenarioDomino)
  /\ rotation = degrees
  /\ latest_hovered_cell = Some(index)
  /\ occupied_tiles # Absent

\* C7: whenever occupied cells are present, the candidate is valid exactly when
\* every occupied index is a cell of the grid and none of them is a cell whose
\* terrain is not None (so one occupied cell on a non-None cell makes it invalid).
C7_ValidIffInsideAndFree ==
  occupied_tiles # Absent =>
    (sprite_white <=>
       \A tile \in OccupiedCells :
          tile \in Indices /\ CellTerrain(cells, tile) = "None")

\* a candidate inside the grid with a later tile (not the first) on a mountain
C7_Witness ==
  /\ occupied_tiles # Absent
  /\ OccupiedCells \subseteq Indices
  /\ CellTerrain(cells, Unwrap(occupied_tiles)[1]) = "None"
  /\ \E tile \in OccupiedCells : CellTerrain(cells, tile) = "Mountain"
  /\ ~sprite_white

\* C8 as claimed: the domino hovered at (5,5) at 0 degrees on the empty grid
\* occupies {(5,5),(5,6)} and is valid.
C8_AsClaimed ==
  DominoSnapped(<<5, 5>>, 0) =>
    (OccupiedCells = {<<5, 5>>, <<5, 6>>} /\ sprite_white)

\* C8 amended: the domino hovered at (5,5) at 0 degrees on the empty grid
\* occupies {(5,4),(5,5)} (the reference tile is the tile of column 1) and is valid.
C8_DominoAtCentre ==
  DominoSnapped(<<5, 5>>, 0) =>
    (OccupiedCells = {<<5, 4>>, <<5, 5>>} /\ sprite_white)

C8_Witness == DominoSnapped(<<5, 5>>, 0)

\* C9 as claimed: the domino anchored at (5,5) and rotated to 90 degrees occupies
\* {(5,5),(4,5)} and is valid.
C9_AsClaimed ==
  DominoSnapped(<<5, 5>>, 90) =>
    (OccupiedCells = {<<5, 5>>, <<4, 5>>} /\ sprite_white)

\* C9 amended: the domino anchored at (5,5) and rotated to 90 degrees occupies
\* {(5,5),(6,5)} and is valid.
C9_DominoRotated ==
  DominoSnapped(<<5, 5>>, 90) =>
    (OccupiedCells = {<<5, 5>>, <<6, 5>>} /\ sprite_white)

C9_Witness == DominoSnapped(<<5, 5>>, 90) /\ sprite_white

\* C10: the domino at 90 degrees hovered at (10,10) on the empty grid has exactly
\* one of its two cells outside the grid, and is not valid.
C10_DominoAtCorner ==
  DominoSnapped(<<10, 10>>, 90) =>
    /\ Cardinality(OccupiedCells) = 2
    /\ Cardinality(OccupiedCells \ Indices) = 1
    /\ ~sprite_white

C10_Witness == DominoSnapped(<<10, 10>>, 90) /\ ~sprite_white

\* C11: while the 1x1 shape is the candidate at rotation 0, a hover of any cell of
\* the grid yields exactly that cell as the occupied cells, and the occupied cells
\* present are exactly the hovered cell.
C11_SingleTileCoversAnchor ==
  (choice # Absent /\ Unwrap(choice).tiles = SingleTile /\ rotation = 0) =>
    /\ \A index \in Indices :
          OccupiedTiles(SingleTile, cell_size_skew, 0, index) = <<index>>
    /\ occupied_tiles # Absent => OccupiedCells = {Unwrap(latest_hovered_cell)}

\* the 1x1 shape snapped to a cell off the diagonal, on a grid of skewed cell size
C11_Witness ==
  /\ choice # Absent
  /\ Unwrap(choice).tiles = SingleTile
  /\ rotation = 0
  /\ cell_size_skew = <<-1, -1>>
  /\ latest_hovered_cell = Some(<<1, 9>>)
  /\ occupied_tiles = Some(<< <<1, 9>> >>)

\* the occupied cells are the candidate's tiles taken relative to reference, rotated,
\* and laid on the hovered cell
SnappedAround(reference) ==
  LET tiles == Unwrap(choice).tiles
      hovered == Unwrap(latest_hovered_cell)
      turned(i) == RotateTile(<<tiles[i][1] - reference[1], tiles[i][2] - reference[2]>>,
                              rotation)
  IN  Unwrap(occupied_tiles) =
        [i \in DOMAIN tiles |-> <<-turned(i)[1] + hovered[1], turned(i)[2] + hovered[2]>>]

\* C13 as claimed: for every shape and rotation the hover update uses the reference
\* tile at row floor((height - 1) / 2) and column 0 of the unrotated bounding box.
C13_AsClaimed ==
  occupied_tiles # Absent =>
    SnappedAround(<<(ChoiceRows(Unwrap(choice).tiles) - 1) \div 2, 0>>)

\* C13 amended: for every shape and rotation the hover update uses the reference
\* tile at column floor(width / 2) and row floor((height - 1) / 2) of the unrotated
\* bounding box, except that a shape three tiles high on a grid whose cell height
\* makes (3 * cell height) / cell height round below 3 uses row 0.
C13_ReferenceTile ==
  occupied_tiles # Absent =>
    LET rows == ChoiceRows(Unwrap(choice).tiles)
        columns == ChoiceColumns(Unwrap(choice).tiles)
    IN  SnappedAround(<<IF rows = 3 /\ cell_size_skew[2] < 0 THEN 0 ELSE (rows - 1) \div 2,
                        columns \div 2>>)

\* a shape three tiles high and three wide, rotated, snapped on a grid whose cell
\* height rounds the quotient down
C13_Witness ==
  /\ occupied_tiles # Absent
  /\ ChoiceRows(Unwrap(choice).tiles) = 3
  /\ ChoiceColumns(Unwrap(choice).tiles) = 3
  /\ rotation = 270
  /\ cell_size_skew = <<-1, -1>>

\* C14 as claimed: after a frame that delivered hover events, the anchor is the cell
\* of the last event of that frame and the occupied cells are the ones of that cell.
C14_AsClaimed ==
  snap_events # <<>> =>
    LET last == snap_events[Len(snap_events)]
    IN  /\ latest_hovered_cell = Some(last)
        /\ occupied_tiles =
             Some(OccupiedTiles(Unwrap(choice).tiles, cell_size_skew, rotation, last))

\* C20: whenever occupied cells are present they are as many distinct cells as the
\* candidate's shape has tiles, whatever the shape, the rotation and the hovered cell.
C20_OccupiedCardinality ==
  occupied_tiles # Absent =>
    /\ Cardinality(OccupiedCells) = Len(Unwrap(choice).tiles)
    /\ Cardinality(OccupiedCells) = Cardinality(Range(Unwrap(choice).tiles))

\* a shape of five tiles, turned by 90 degrees, snapped at the corner (10,10)
C20_Witness ==
  /\ occupied_tiles # Absent
  /\ Len(Unwrap(choice).tiles) = 5
  /\ rotation = 90
  /\ latest_hovered_cell = Some(<<10, 10>>)
  /\ Cardinality(OccupiedCells) = 5

\* ------------------------------------------------------------------------
\* Commit: properties
\* ------------------------------------------------------------------------

\* a step that is a confirm request
ConfirmStep == confirms' # confirms

\* C15: a confirm request for a valid candidate with occupied cells sets the terrain
\* of exactly the occupied cells to the candidate's terrain and leaves the terrain of
\* every other cell as it was; a confirm request for any other candidate changes no
\* cell.
C15_CommitWritesExactlyOccupied ==
  [][ConfirmStep =>
       IF Committable
       THEN \A index \in Indices :
               CellTerrain(cells', index) =
                 IF index \in OccupiedCells THEN Unwrap(choice).terrain
                 ELSE CellTerrain(cells, index)
       ELSE cells' = cells]_vars

\* the two-tile shape has been committed on (5,4) and (4,4), the mountains are as
\* setup left them and no other cell has a terrain
C15_Witness ==
  /\ choice = Absent
  /\ CellTerrain(cells, <<5, 4>>) = "Farm"
  /\ CellTerrain(cells, <<4, 4>>) = "Farm"
  /\ DOMAIN cells = Mountains \cup {<<5, 4>>, <<4, 4>>}
  /\ \A index \in Mountains : cells[index] = "Mountain"

\* C16 as claimed: a cell has a terrain other than None exactly when one commit has
\* written it, and no cell is written more than once.
C16_AsClaimed ==
  \A index \in Indices :
     /\ Writes(cell_writes, index) <= 1
     /\ (CellTerrain(cells, index) # "None") <=> (Writes(cell_writes, index) = 1)

\* C16 amended: the five mountain cells are Mountain from setup on and are never
\* written; every other cell has a terrain other than None exactly when one commit
\* has written it; no cell is written more than once; and a cell whose terrain is not
\* None never becomes None again.
C16_TerrainSetOnce ==
  /\ [](\A index \in Indices :
          /\ Writes(cell_writes, index) <= 1
          /\ index \in Mountains =>
                (CellTerrain(cells, index) = "Mountain" /\ Writes(cell_writes, index) = 0)
          /\ index \notin Mountains =>
                ((CellTerrain(cells, index) # "None") <=> (Writes(cell_writes, index) = 1)))
  /\ [][\A index \in Indices :
          CellTerrain(cells, index) # "None" => CellTerrain(cells', index) # "None"]_vars

\* after three commits a candidate lies over a cell a commit has written and over no
\* mountain, and is shown as invalid
C16_Witness ==
  /\ Cardinality(DOMAIN cell_writes) >= 3
  /\ occupied_tiles # Absent
  /\ ~sprite_white
  /\ OccupiedCells \cap Mountains = {}
  /\ \E index \in OccupiedCells : Writes(cell_writes, index) = 1

\* ------------------------------------------------------------------------
\* Rotation: properties
\* ------------------------------------------------------------------------

\* C12: the rotation maps compose like the rotations of a square: a tile turned by
\* maps whose degrees add up to d (mod 360) is where the map of d alone puts it, so
\* the 90 degree map four times and the 180 degree map twice give the tile back,
\* the 90 degree map twice is the 180 degree map and three times the 270 degree map;
\* no map of 90, 180 or 270 degrees leaves a tile other than (0,0) in place, and
\* the 90 degree map is (r,c) -> (c,-r).
C12_RotationsFormCyclicGroup ==
  /\ probe_tile = RotateTile(probe_origin, probe_total)
  /\ (probe_total = 0) => probe_tile = probe_origin
  /\ (probe_total # 0 /\ probe_origin # <<0, 0>>) => probe_tile # probe_origin
  /\ (probe_turns = 1 /\ probe_total = 90) =>
        probe_tile = <<probe_origin[2], -probe_origin[1]>>

\* the tile (1,2) after four rotations that add up to a full turn
C12_Witness ==
  /\ probe_origin = <<1, 2>>
  /\ probe_turns = 4
  /\ probe_total = 0
  /\ probe_tile = <<1, 2>>

\* ------------------------------------------------------------------------
\* Generators: properties
\* ------------------------------------------------------------------------

\* the largest row and the largest column of the tiles the generator was called with
MaxRowOffset == SetMax({gen_tiles[i][1] : i \in DOMAIN gen_tiles})

MaxColumnOffset == SetMax({gen_tiles[i][2] : i \in DOMAIN gen_tiles})

\* the bytes of the pixel (x, y) of an image
PixelAt(image, x, y) ==
  [b \in 1..image.pixel_size |->
     image.data[(y * image.width + x) * image.pixel_size + b]]

\* C17: a generator called with tiles and a terrain image of width W and height H
\* returns an image of width (max column + 1) * W and height (max row + 1) * H, whose
\* data holds that many pixels.
C17_CompositeDimensions ==
  (gen_tiles # <<>> /\ (gen_result # Absent \/ gen_panicked)) =>
    /\ gen_result # Absent
    /\ Unwrap(gen_result).width = (MaxColumnOffset + 1) * Unwrap(gen_image).width
    /\ Unwrap(gen_result).height = (MaxRowOffset + 1) * Unwrap(gen_image).height
    /\ Len(Unwrap(gen_result).data) =
         Unwrap(gen_result).width * Unwrap(gen_result).height * Unwrap(gen_image).pixel_size

\* the image of a shape two tiles high and four wide made from a terrain image two
\* pixels wide and one high
C17_Witness ==
  /\ gen_result # Absent
  /\ MaxRowOffset = 1
  /\ MaxColumnOffset = 3
  /\ Unwrap(gen_image).width = 2
  /\ Unwrap(gen_image).height = 1
  /\ Unwrap(gen_result).width = 8
  /\ Unwrap(gen_result).height = 2

\* C18: every pixel (x, y) of the image returned is the pixel (x mod W, y mod H) of
\* the terrain image when (max row - floor(y / H), floor(x / W)) is one of the tiles,
\* and has all its bytes zero otherwise.
C18_CompositePixels ==
  (gen_tiles # <<>> /\ gen_result # Absent) =>
    LET image == Unwrap(gen_result)
        terrain_image == Unwrap(gen_image)
    IN  \A x \in 0..(image.width - 1), y \in 0..(image.height - 1) :
           PixelAt(image, x, y) =
             IF <<MaxRowOffset - (y \div terrain_image.height), x \div terrain_image.width>>
                  \in Range(gen_tiles)
             THEN PixelAt(terrain_image, x % terrain_image.width, y % terrain_image.height)
             ELSE [b \in 1..terrain_image.pixel_size |-> 0]

\* the image of a shape three tiles high with a gap in its bounding box, made from a
\* terrain image of 2x2 pixels of two bytes
C18_Witness ==
  /\ gen_result # Absent
  /\ gen_tiles = << <<2, 0>>, <<1, 1>>, <<0, 2>> >>
  /\ Unwrap(gen_image).width = 2
  /\ Unwrap(gen_image).height = 2
  /\ Unwrap(gen_image).pixel_size = 2
  /\ PixelAt(Unwrap(gen_result), 0, 0) = PixelAt(Unwrap(gen_image), 0, 0)
  /\ PixelAt(Unwrap(gen_result), 5, 0) = <<0, 0>>

\* C19: a generator called with no tiles panics and returns no image.
C19_EmptyTileSetPanics ==
  (gen_tiles = <<>> /\ (gen_result # Absent \/ gen_panicked)) =>
    (gen_panicked /\ gen_result = Absent)

\* a call with no tiles has panicked
C19_Witness == gen_tiles = <<>> /\ gen_panicked

\* C21 as claimed: whenever a shape of the catalog is snapped to a cell, the
\* reference tile of the hover update is one of the shape's tiles, and the hovered
\* cell is one of the occupied cells, at every rotation.
C21_AsClaimed ==
  (occupied_tiles # Absent /\ Unwrap(choice) \in CatalogChoices) =>
    /\ ReferenceCell(Unwrap(choice).tiles, cell_size_skew) \in Range(Unwrap(choice).tiles)
    /\ Unwrap(latest_hovered_cell) \in OccupiedCells

\* every terrain base texture reports loaded
TerrainsLoaded == \A handle \in TerrainHandles : load_state[handle] = "loaded"

\* C22: the Choices stage is registered only by the run of generate_choices that
\* the reaction of the TerrainImages stage triggers, and in no state is the Choices
\* stage pending, the Choices resource present, or generate_choices about to run or
\* running, while a terrain base texture is not loaded.
C22_StageTwoOnlyAfterStageOne ==
  /\ []((Pending("Choices") \/ choices_inserted \/ terrain_images_loaded \/ generated > 0)
          => (TerrainsLoaded /\ fired["TerrainImages"] = 1))
  /\ [][("Choices" \in trackers' /\ "Choices" \notin trackers) =>
          (terrain_images_loaded /\ TerrainsLoaded /\ generated' = generated + 1)]_vars
  /\ [][generated' # generated => (terrain_images_loaded /\ TerrainsLoaded)]_vars

\* the Choices stage is pending, its images not yet loaded, one tick after the
\* reaction of the TerrainImages stage
C22_Witness ==
  /\ Pending("Choices")
  /\ ~Pending("TerrainImages")
  /\ generated = 1
  /\ fired["TerrainImages"] = 1
  /\ \E handle \in ChoiceHandles : load_state[handle] = "loading"
  /\ \E handle \in MapHandles : load_state[handle] # "loaded"

\* ------------------------------------------------------------------------
\* The shape catalog: properties
\* ------------------------------------------------------------------------

\* the (shape variant, terrain) pairs of a card, by their positions in its Permutation
CardPairs(card) ==
  (DOMAIN Permutation(card).tiles) \X (DOMAIN Permutation(card).terrains)

\* C23: for every drawable card, generate_choices returns as many choices as the
\* card has (shape variant, terrain) pairs, every pair is the shape, coin and terrain
\* of exactly one choice and every choice is such a pair, each with its composite
\* image; a card without shape variants (the two ruins cards) gets an empty list,
\* and in main.rs no Choices at all, so nothing is created to offer for it.
C23_OneChoicePerPair ==
  /\ gen_choices # Absent =>
       LET card == Unwrap(gen_card)
           p == Permutation(card)
           choices == Unwrap(gen_choices)
           Is(k, pair) ==
             /\ choices[k].tiles = p.tiles[pair[1]][1]
             /\ choices[k].with_coin = p.tiles[pair[1]][2]
             /\ choices[k].terrain = p.terrains[pair[2]]
       IN  /\ Len(choices) = Len(p.tiles) * Len(p.terrains)
           /\ \A pair \in CardPairs(card) :
                 Cardinality({k \in DOMAIN choices : Is(k, pair)}) = 1
           /\ \A k \in DOMAIN choices :
                 /\ \E pair \in CardPairs(card) : Is(k, pair)
                 /\ choices[k].image # Absent
           /\ card \in {"TempleRuins05", "OutpostRuins06"} =>
                 (p.tiles = <<>> /\ choices = <<>>)
  /\ gen_card_choices # Absent =>
       LET card == Unwrap(gen_card)
           p == Permutation(card)
           option == Unwrap(gen_card_choices)
       IN  /\ (option = Absent) <=> (p.tiles = <<>>)
           /\ card \in {"TempleRuins05", "OutpostRuins06"} => option = Absent
           /\ option = Absent =>
                 KeysCreated(card, {CategoryOf(Terrain[i]) : i \in DOMAIN Terrain}) = {}
           /\ option # Absent =>
                LET choices == Unwrap(option)
                IN  /\ Len(choices) = Len(p.tiles)
                    /\ \A k \in DOMAIN choices :
                          /\ choices[k].tiles = p.tiles[k][1]
                          /\ choices[k].with_coin = p.tiles[k][2]
                          /\ Len(choices[k].categories) = Len(p.terrains)
                          /\ \A j \in DOMAIN p.terrains :
                                choices[k].categories[j] = CategoryOf(p.terrains[j])
                    /\ Len(ImageKeys(card)) = Len(p.tiles) * Len(p.terrains)
                    /\ Cardinality(Range(ImageKeys(card))) = Len(ImageKeys(card))

\* the choices of the card with one shape and five terrains, from both functions
C23_Witness ==
  /\ gen_card = Some("RiftLands17")
  /\ gen_choices # Absent
  /\ Len(Unwrap(gen_choices)) = 5
  /\ gen_card_choices # Absent
  /\ Unwrap(gen_card_choices) # Absent

\* ------------------------------------------------------------------------
\* Session: the cards
\* ------------------------------------------------------------------------

\* how often card is held by the deck, the discard pile and DrawnCard together
Held(card) ==
  Cardinality({i \in DOMAIN deck : deck[i] = card})
    + Cardinality({i \in DOMAIN discard_pile : discard_pile[i] = card})
    + (IF drawn_card = card THEN 1 ELSE 0)

\* a step of draw_card: the deck, the discard pile or the drawn card changes
DrawStep == <<deck, discard_pile, drawn_card>>' # <<deck, discard_pile, drawn_card>>

\* C24: whatever draws have been made, every card of the session is held exactly
\* once by the deck, the discard pile and the drawn card together, and no other
\* card is held; a draw on an empty deck finds cards in the discard pile, moves all
\* of them into the deck, empties the pile and leaves the drawn card as it is, and
\* the drawn card changes only by taking the first card of a deck that is not empty.
C24_CardsConserved ==
  /\ [](/\ \A card \in SessionCards : Held(card) = 1
        /\ Range(deck) \cup Range(discard_pile) \cup {drawn_card} = SessionCards
        /\ deck = <<>> => discard_pile # <<>>)
  /\ [][(DrawStep /\ deck = <<>>) =>
          /\ Len(deck') = Len(discard_pile)
          /\ Range(deck') = Range(discard_pile)
          /\ discard_pile' = <<>>
          /\ drawn_card' = drawn_card]_vars
  /\ [][(DrawStep /\ deck # <<>>) =>
          /\ drawn_card' = Head(deck)
          /\ deck' = Tail(deck)
          /\ discard_pile' = Append(discard_pile, drawn_card)]_vars

\* the discard pile has been shuffled into the deck after every card was drawn: two
\* cards have had their images created, and the pile is empty again
C24_Witness ==
  /\ discard_pile = <<>>
  /\ Len(deck) = NumCards - 1
  /\ \E first, second \in AllImageKeys :
        /\ first[1] # second[1]
        /\ image_generations[first] >= 1
        /\ image_generations[second] >= 1

\* ------------------------------------------------------------------------
\* resource_tracking: the entries of Callbacks
\* ------------------------------------------------------------------------

\* a step that puts an entry into Callbacks
RegistrationStep == ~(callback_ids' \subseteq callback_ids)

\* C25: Callbacks holds at most one entry per resource type, and no more entries
\* than types have been registered; a registration of a type that has an entry
\* puts a new system in place of that entry and leaves the number of entries as it
\* is; a tick runs the reaction of a type at most once.
C25_OnePendingStagePerType ==
  /\ [](/\ \A type \in TypeIds : Cardinality(EntriesOf(callback_ids, type)) <= 1
        /\ callbacks = Keys(callback_ids)
        /\ Cardinality(callback_ids) <= Cardinality({type \in TypeIds : tracked[type] # Absent})
        /\ \A stage \in Stages : fired[stage] <= 1)
  /\ [][\A type \in TypeIds :
          (RegistrationStep /\ EntriesOf(callback_ids, type) # {}
             /\ EntriesOf(callback_ids', type) # EntriesOf(callback_ids, type)) =>
            /\ Cardinality(EntriesOf(callback_ids', type)) = 1
            /\ EntriesOf(callback_ids', type) \cap callback_ids = {}
            /\ Cardinality(callback_ids') = Cardinality(callback_ids)]_vars
  /\ [][\A type \in TypeIds :
          TickStep => fired'[type] <= fired[type] + 1]_vars

\* a type registered again while its stage was pending: its entry is the new system,
\* the system of the first registration is still registered with the World
C25_Witness ==
  \E type \in TypeIds :
     /\ Cardinality(EntriesOf(callback_ids, type)) = 1
     /\ \E system \in systems \ callback_ids : system[1] = type

====
